---------------------------- MODULE Spec2Model ----------------------------
(***************************************************************************)
(* Model of spz_converter.py: the prerequisite checker, the conversion     *)
(* invoker, the command line entry point and the Tk form.                  *)
(*                                                                         *)
(* A text (Python str) is a sequence of tokens; the tokens " " and "/" are *)
(* a blank and the path separator, every other token is an opaque run of   *)
(* characters.  A path (pathlib.Path) is the sequence of its components,   *)
(* each component a text.  All paths of the model are relative: the        *)
(* current directory is the empty path.  Writing to the console or to the  *)
(* log is taken never to fail.                                             *)
(***************************************************************************)
EXTENDS Integers, Sequences, FiniteSets, TLC

\* Largest exit status an external command returns in the model.
MaxExitCode == 2

(***************************************************************************)
(* Texts and paths                                                         *)
(***************************************************************************)
RECURSIVE strip(_)
\* str.strip(): blanks removed at both ends
strip(t) ==
    IF t = <<>> THEN t
    ELSE IF Head(t) = " " THEN strip(Tail(t))
    ELSE IF t[Len(t)] = " " THEN strip(SubSeq(t, 1, Len(t) - 1))
    ELSE t

RECURSIVE PathParts(_)
\* pathlib.Path(t): the components between separators, empty ones dropped
PathParts(t) ==
    IF t = <<>> THEN <<>>
    ELSE LET seps == {i \in 1..Len(t) : t[i] = "/"}
             cut  == IF seps = {} THEN Len(t) + 1
                     ELSE CHOOSE i \in seps : \A j \in seps : i <= j
             head == SubSeq(t, 1, cut - 1)
             rest == IF cut > Len(t) THEN <<>> ELSE SubSeq(t, cut + 1, Len(t))
         IN (IF head = <<>> THEN <<>> ELSE <<head>>) \o PathParts(rest)

RECURSIVE PathText(_)
\* str(path): the components joined by the separator; "." for the empty path
PathText(p) ==
    IF p = <<>> THEN <<".">>
    ELSE IF Len(p) = 1 THEN p[1]
    ELSE p[1] \o <<"/">> \o PathText(Tail(p))

\* path / name
PathJoin(p, t) == p \o PathParts(t)

\* the working directory of the process, as an absolute path
Cwd == << <<"", "cwd">> >>

\* Path(t).resolve(): made absolute against the working directory
resolve(p) == Cwd \o p

Digit == <<"0", "1", "2", "3", "4", "5", "6", "7", "8", "9">>

RECURSIVE IntText(_)
\* str(n) for a non-negative integer
IntText(n) ==
    IF n < 10 THEN <<Digit[n + 1]>>
    ELSE IntText(n \div 10) \o <<Digit[(n % 10) + 1]>>

RECURSIVE JoinTexts(_)
\* ' '.join(cmd)
JoinTexts(ts) ==
    IF ts = <<>> THEN <<>>
    ELSE IF Len(ts) = 1 THEN ts[1]
    ELSE ts[1] \o <<" ">> \o JoinTexts(Tail(ts))

(***************************************************************************)
(* File system: fs.dirs and fs.files are sets of paths, fs.writable tells  *)
(* whether the process may create entries.                                 *)
(***************************************************************************)
Prefixes(p) == {SubSeq(p, 1, k) : k \in 0..Len(p)}

\* Path.exists()
exists(p, fs) == p \in fs.dirs \cup fs.files

\* mutant of MakeOutputDir: exist_ok dropped, an existing directory raises
MakeOutputDir_NoExistOk(p, fs) ==
    IF p \in fs.dirs \/ Prefixes(p) \cap fs.files # {}
    THEN [raised |-> TRUE, error |-> "FileExistsError", dirs |-> fs.dirs]
    ELSE IF ~fs.writable
    THEN [raised |-> TRUE, error |-> "PermissionError", dirs |-> fs.dirs]
    ELSE [raised |-> FALSE, error |-> "", dirs |-> fs.dirs \cup Prefixes(p)]

\* Path(output_dir).mkdir(parents=True, exist_ok=True)
MakeOutputDir(p, fs) ==
    IF p \in fs.dirs
    THEN [raised |-> FALSE, error |-> "", dirs |-> fs.dirs]
    ELSE IF Prefixes(p) \cap fs.files # {}
    THEN [raised |-> TRUE, error |-> "FileExistsError", dirs |-> fs.dirs]
    ELSE IF ~fs.writable
    THEN [raised |-> TRUE, error |-> "PermissionError", dirs |-> fs.dirs]
    ELSE [raised |-> FALSE, error |-> "", dirs |-> fs.dirs \cup Prefixes(p)]

(***************************************************************************)
(* SPZConverter                                                            *)
(***************************************************************************)
java_main_class == "de.javagl.jspz.examples.SpzToTileset"
maven_module == "jspz-main"
DefaultContentName == <<"content.glb">>

mvn_cmd(os_name) == IF os_name = "nt" THEN "mvn.cmd" ELSE "mvn"

\* Path(java_home) / "bin" / "java" (java.exe on Windows)
java_exe(os_name) ==
    << <<"JAVA_HOME">>, <<"bin">>,
       <<IF os_name = "nt" THEN "java.exe" ELSE "java">> >>

\* what subprocess.run can do: return with an exit status and the captured
\* streams, time out, fail to launch, or fail in another way
RunOutcome ==
    [kind : {"exit"}, code : 0..MaxExitCode,
     stdout : {<<>>, <<"out">>}, stderr : {<<>>, <<"err">>}]
    \cup [kind : {"timeout", "notfound", "error"}, code : {0},
          stdout : {<<>>}, stderr : {<<>>}]

\* the version query is only looked at for its status and its error stream
VersionOutcome == {r \in RunOutcome : r.stdout = <<>>}

\* str(e) of the exception a run raised
ExceptionText(r) ==
    IF r.kind = "timeout" THEN <<"timed out">>
    ELSE IF r.kind = "notfound" THEN <<"No such file or directory">>
    ELSE <<"OSError">>

\* mutant of check_prerequisites: the JAVA_HOME test comes after the version
\* query, and a non-zero status of the query is ignored
check_prerequisites_Reordered(env, ver) ==
    IF ~env.mvn
    THEN [ok |-> FALSE, msg |-> <<"Maven not found in PATH. ">>,
          events |-> <<"which">>]
    ELSE IF ver.kind # "exit"
    THEN [ok |-> FALSE, msg |-> <<"Maven test failed: ">> \o ExceptionText(ver),
          events |-> <<"which", "run_version">>]
    ELSE IF env.java_home # "set"
    THEN [ok |-> FALSE, msg |-> <<"JAVA_HOME environment variable is not set. ">>,
          events |-> <<"which", "run_version", "getenv">>]
    ELSE [ok |-> TRUE, msg |-> <<>>,
          events |-> <<"which", "run_version", "getenv", "java_exists">>]

\* mutant of check_prerequisites: the version query is left out
check_prerequisites_NoSelfTest(env, ver) ==
    IF ~env.mvn
    THEN [ok |-> FALSE, msg |-> <<"Maven not found in PATH. ">>,
          events |-> <<"which">>]
    ELSE IF env.java_home # "set"
    THEN [ok |-> FALSE, msg |-> <<"JAVA_HOME environment variable is not set. ">>,
          events |-> <<"which", "getenv">>]
    ELSE IF ~env.java_exe
    THEN [ok |-> FALSE,
          msg |-> <<"Java executable not found at ">>
                  \o PathText(java_exe(env.os_name))
                  \o <<". Please check JAVA_HOME setting.">>,
          events |-> <<"which", "getenv", "java_exists">>]
    ELSE [ok |-> TRUE, msg |-> <<>>,
          events |-> <<"which", "getenv", "java_exists">>]

\* SPZConverter.check_prerequisites: (success, error_message), with the
\* external probes it made, in order
check_prerequisites(env, ver) ==
    IF ~env.mvn
    THEN [ok |-> FALSE, msg |-> <<"Maven not found in PATH. ">>,
          events |-> <<"which">>]
    ELSE IF env.java_home # "set"
    THEN [ok |-> FALSE, msg |-> <<"JAVA_HOME environment variable is not set. ">>,
          events |-> <<"which", "getenv">>]
    ELSE IF ~env.java_exe
    THEN [ok |-> FALSE,
          msg |-> <<"Java executable not found at ">>
                  \o PathText(java_exe(env.os_name))
                  \o <<". Please check JAVA_HOME setting.">>,
          events |-> <<"which", "getenv", "java_exists">>]
    ELSE IF ver.kind # "exit"
    THEN [ok |-> FALSE, msg |-> <<"Maven test failed: ">> \o ExceptionText(ver),
          events |-> <<"which", "getenv", "java_exists", "run_version">>]
    ELSE IF ver.code # 0
    THEN [ok |-> FALSE, msg |-> <<"Maven test failed: ">> \o ver.stderr,
          events |-> <<"which", "getenv", "java_exists", "run_version">>]
    ELSE [ok |-> TRUE, msg |-> <<>>,
          events |-> <<"which", "getenv", "java_exists", "run_version">>]


\* timeout handed to subprocess.run for the conversion command
ConvertTimeout == 300

\* mutant of input_exists: the input file is not validated
input_exists_Unchecked(input_file, fs) == TRUE

\* Path(input_file).exists()
input_exists(input_file, fs) == exists(PathParts(input_file), fs)

\* the Maven command line of the conversion
MainCommand(os_name, abs_input, abs_output, content_filename) ==
    << <<mvn_cmd(os_name)>>,
       <<"exec:java">>,
       <<"-Dexec.mainClass=", java_main_class>>,
       <<"-Dexec.args=">> \o PathText(abs_input) \o <<" ">>
           \o PathText(abs_output) \o <<" ">> \o content_filename,
       <<"-pl">>,
       <<maven_module>>,
       <<"-q">> >>

\* mutant of ReportRun: the exit status is not looked at
ReportRun_IgnoreStatus(run, output_dir, content_filename) ==
    IF run.kind = "exit"
    THEN [result |-> TRUE,
          printed |-> << <<"[ok] Conversion completed successfully!">>,
                         <<"  Output files:">>,
                         <<"    - ">> \o PathText(PathJoin(PathParts(output_dir), <<"tileset.json">>)),
                         <<"    - ">> \o PathText(PathJoin(PathParts(output_dir), content_filename)) >>]
    ELSE [result |-> FALSE,
          printed |-> << <<"[x] Unexpected error: ">> \o ExceptionText(run) >>]

\* mutant of ReportRun: one handler for every exception
ReportRun_OneHandler(run, output_dir, content_filename) ==
    IF run.kind = "exit" /\ run.code = 0
    THEN [result |-> TRUE,
          printed |-> << <<"[ok] Conversion completed successfully!">>,
                         <<"  Output files:">>,
                         <<"    - ">> \o PathText(PathJoin(PathParts(output_dir), <<"tileset.json">>)),
                         <<"    - ">> \o PathText(PathJoin(PathParts(output_dir), content_filename)) >>]
    ELSE IF run.kind = "exit"
    THEN [result |-> FALSE,
          printed |-> << <<"[x] Conversion failed!">>,
                         <<"Return code: ">> \o IntText(run.code) >>
                      \o (IF run.stdout # <<>>
                          THEN << <<"Standard output: ">> \o run.stdout >> ELSE <<>>)
                      \o (IF run.stderr # <<>>
                          THEN << <<"Error output: ">> \o run.stderr >> ELSE <<>>)]
    ELSE [result |-> FALSE,
          printed |-> << <<"[x] Unexpected error: ">> \o ExceptionText(run) >>]

\* what convert returns and prints once subprocess.run has ended as `run`
ReportRun(run, output_dir, content_filename) ==
    IF run.kind = "exit" /\ run.code = 0
    THEN [result |-> TRUE,
          printed |-> << <<"[ok] Conversion completed successfully!">>,
                         <<"  Output files:">>,
                         <<"    - ">> \o PathText(PathJoin(PathParts(output_dir), <<"tileset.json">>)),
                         <<"    - ">> \o PathText(PathJoin(PathParts(output_dir), content_filename)) >>]
    ELSE IF run.kind = "exit"
    THEN [result |-> FALSE,
          printed |-> << <<"[x] Conversion failed!">>,
                         <<"Return code: ">> \o IntText(run.code) >>
                      \o (IF run.stdout # <<>>
                          THEN << <<"Standard output: ">> \o run.stdout >> ELSE <<>>)
                      \o (IF run.stderr # <<>>
                          THEN << <<"Error output: ">> \o run.stderr >> ELSE <<>>)]
    ELSE IF run.kind = "timeout"
    THEN [result |-> FALSE,
          printed |-> << <<"[x] Conversion timed out after 5 minutes">> >>]
    ELSE IF run.kind = "notfound"
    THEN [result |-> FALSE,
          printed |-> << <<"[x] Command not found: ">> \o ExceptionText(run) >>]
    ELSE [result |-> FALSE,
          printed |-> << <<"[x] Unexpected error: ">> \o ExceptionText(run) >>]

\* a call that has launched nothing and printed nothing yet
NoReturn ==
    [raised |-> FALSE, error |-> "", result |-> FALSE, printed |-> <<>>,
     events |-> <<>>, dirs |-> {}, cmd |-> <<>>, timeout |-> 0]

\* SPZConverter.convert in the world w = [env, fs, ver, main]: ver and main
\* are what the version query and the conversion command do when run.
\* The result tells whether the call returned or raised, the value it
\* returned, the lines it printed, its external probes in order, the
\* directories that exist afterwards and the command it launched.
convert(input_file, output_dir, content_filename, w) ==
    LET pre  == check_prerequisites(w.env, w.ver)
        none == [NoReturn EXCEPT !.events = pre.events, !.dirs = w.fs.dirs]
    IN  IF ~pre.ok
        THEN [none EXCEPT
                !.printed = << <<"[x] Prerequisites check failed: ">> \o pre.msg >>]
        ELSE IF ~input_exists(input_file, w.fs)
        THEN [none EXCEPT
                !.events = @ \o <<"input_exists">>,
                !.printed = << <<"[x] Input file '">> \o input_file
                               \o <<"' does not exist">> >>]
        ELSE LET mk == MakeOutputDir(PathParts(output_dir), w.fs)
             IN  IF mk.raised
                 THEN [none EXCEPT
                         !.events = @ \o <<"input_exists", "mkdir">>,
                         !.raised = TRUE, !.error = mk.error]
                 ELSE LET cmd == MainCommand(w.env.os_name,
                                             resolve(PathParts(input_file)),
                                             resolve(PathParts(output_dir)),
                                             content_filename)
                          rep == ReportRun(w.main, output_dir, content_filename)
                      IN  [none EXCEPT
                             !.events = @ \o <<"input_exists", "mkdir", "run_main">>,
                             !.dirs = mk.dirs,
                             !.cmd = cmd,
                             !.timeout = ConvertTimeout,
                             !.result = rep.result,
                             !.printed = << <<"Converting ">> \o input_file \o <<" to ">>
                                            \o output_dir \o <<"...">>,
                                            <<"Running: ">> \o JoinTexts(cmd) >>
                                         \o rep.printed]


(***************************************************************************)
(* The process: main(), and the Tk form of SPZConverterGUI                 *)
(***************************************************************************)
VARIABLES
    pc,             \* "start", "gui" (inside mainloop) or "exited"
    argv,           \* the command line
    gui_available,  \* GUI_AVAILABLE: tkinter could be imported
    env,            \* os.name, the search path, JAVA_HOME and what it holds
    fs,             \* the file system
    form,           \* the three StringVars of the form
    log_text,       \* the lines of the log area
    stdout,         \* the lines printed on the console
    exit_code,      \* the exit status of the process, -1 while it runs
    last            \* what the last handler did: main()'s conversion or the
                    \* last press of Convert (cleared by the next user action)

vars == <<pc, argv, gui_available, env, fs, form, log_text, stdout, exit_code, last>>

\* the SPZ file that exists, and the names used on the command line and
\* typed into the form
InputFile == <<"in.spz">>
ArgInputs == {<<>>, InputFile, <<"nofile.spz">>}
ArgOutputs == {<<>>, <<"out", "/", "sub">>, InputFile}
ArgContents ==
    {[given |-> FALSE, value |-> <<>>],
     [given |-> TRUE, value |-> <<>>],
     [given |-> TRUE, value |-> <<"other.glb">>]}
TypedInputs == {<<>>, InputFile, <<" ", "nofile.spz">>}
TypedOutputs == {<<>>, <<" ">>, <<"out", "/", "sub", " ">>, InputFile}
TypedContents == {<<" ">>, DefaultContentName, <<" ", "other.glb">>}
PickedFiles == {<<>>, InputFile}
PickedDirs == {<<>>, <<"out", "/", "sub">>}

Environments ==
    [os_name : {"posix", "nt"}, mvn : BOOLEAN,
     java_home : {"unset", "empty", "set"}, java_exe : BOOLEAN]

\* no run of an external command
NoRun == [kind |-> "none", code |-> 0, stdout |-> <<>>, stderr |-> <<>>]
NoDialog == <<>>

Idle ==
    [who |-> "none", calls |-> 0,
     given |-> [input_file |-> <<>>, output_dir |-> <<>>,
                content |-> [given |-> FALSE, value |-> <<>>]],
     args |-> [input_file |-> <<>>, output_dir |-> <<>>, content_filename |-> <<>>],
     dirs_before |-> {}, ver |-> NoRun, main |-> NoRun,
     ret |-> NoReturn, dialog |-> NoDialog]

Ran(events, e) == \E i \in 1..Len(events) : events[i] = e

\* an outcome is drawn for a command only when the call runs the command:
\* the outcomes the version query can have in this environment
VersionChoices(e) ==
    IF Ran(check_prerequisites(e, NoRun).events, "run_version")
    THEN VersionOutcome ELSE {NoRun}

\* the outcomes the conversion command can have in this call
RunChoices(input_file, output_dir, content_filename, w) ==
    IF Ran(convert(input_file, output_dir, content_filename,
                   [w EXCEPT !.main = NoRun]).events, "run_main")
    THEN RunOutcome ELSE {NoRun}

\* the record of one call of convert
Called(who, given, args, dirs, ver, run, ret) ==
    [who |-> who, calls |-> 1, given |-> given, args |-> args,
     dirs_before |-> dirs, ver |-> ver, main |-> run,
     ret |-> ret, dialog |-> NoDialog]

Init ==
    /\ pc = "start"
    /\ gui_available \in BOOLEAN
    /\ env \in Environments
    /\ fs \in [dirs : {{<<>>}}, files : {{<<InputFile>>}}, writable : BOOLEAN]
    \* the positional arguments are not looked at with --gui
    /\ argv \in [gui : {FALSE}, input_file : ArgInputs, output_dir : ArgOutputs,
                 content_name : ArgContents]
          \cup [gui : {TRUE}, input_file : {<<>>}, output_dir : {<<>>},
                content_name : {[given |-> FALSE, value |-> <<>>]}]
    /\ form = [input_file |-> <<>>, output_dir |-> <<>>, content_filename |-> <<>>]
    /\ log_text = <<>>
    /\ stdout = <<>>
    /\ exit_code = -1
    /\ last = Idle

\* parser.parse_args(): the default of --content-name
args_content_name(a) == IF a.content_name.given THEN a.content_name.value
                        ELSE DefaultContentName

\* mutant of ExitStatus: the outcome is not passed on
ExitStatus_AlwaysZero(success) == 0

\* sys.exit(0 if success else 1)
ExitStatus(success) == IF success THEN 0 ELSE 1

\* main() with --gui where tkinter is missing
MainGuiUnavailable ==
    /\ pc = "start" /\ argv.gui /\ ~gui_available
    /\ stdout' = << <<"Error: GUI not available. Please install tkinter.">> >>
    /\ exit_code' = 1
    /\ pc' = "exited"
    /\ UNCHANGED <<argv, gui_available, env, fs, form, log_text, last>>

\* main() with --gui: SPZConverterGUI() and gui.run() enter the main loop
MainGuiStart ==
    /\ pc = "start" /\ argv.gui /\ gui_available
    /\ form' = [input_file |-> <<>>, output_dir |-> <<>>,
                content_filename |-> DefaultContentName]
    /\ pc' = "gui"
    /\ UNCHANGED <<argv, gui_available, env, fs, log_text, stdout, exit_code, last>>

\* main() without --gui and without both positional arguments
MainCliHelp ==
    /\ pc = "start" /\ ~argv.gui
    /\ argv.input_file = <<>> \/ argv.output_dir = <<>>
    /\ stdout' = << <<"usage">> >>
    /\ exit_code' = 1
    /\ pc' = "exited"
    /\ UNCHANGED <<argv, gui_available, env, fs, form, log_text, last>>

\* main() in CLI mode: one conversion, its outcome is the exit status; an
\* exception that leaves convert ends the interpreter with status 1
MainCliConvert ==
    /\ pc = "start" /\ ~argv.gui
    /\ argv.input_file # <<>> /\ argv.output_dir # <<>>
    /\ \E ver \in VersionChoices(env) :
        \E run \in RunChoices(argv.input_file, argv.output_dir,
                              args_content_name(argv),
                              [env |-> env, fs |-> fs, ver |-> ver, main |-> NoRun]) :
         LET content == args_content_name(argv)
             ret == convert(argv.input_file, argv.output_dir, content,
                            [env |-> env, fs |-> fs, ver |-> ver, main |-> run])
         IN  /\ last' = Called("cli",
                               [input_file |-> argv.input_file,
                                output_dir |-> argv.output_dir,
                                content |-> argv.content_name],
                               [input_file |-> argv.input_file,
                                output_dir |-> argv.output_dir,
                                content_filename |-> content],
                               fs.dirs, ver, run, ret)
             /\ fs' = [fs EXCEPT !.dirs = ret.dirs]
             /\ stdout' = ret.printed
             /\ exit_code' = IF ret.raised THEN 1 ELSE ExitStatus(ret.result)
    /\ pc' = "exited"
    /\ UNCHANGED <<argv, gui_available, env, form, log_text>>

\* the user edits the entry of the input file
TypeInputFile ==
    /\ pc = "gui"
    /\ \E t \in TypedInputs : form' = [form EXCEPT !.input_file = t]
    /\ last' = Idle
    /\ UNCHANGED <<pc, argv, gui_available, env, fs, log_text, stdout, exit_code>>

\* the user edits the entry of the output directory
TypeOutputDir ==
    /\ pc = "gui"
    /\ \E t \in TypedOutputs : form' = [form EXCEPT !.output_dir = t]
    /\ last' = Idle
    /\ UNCHANGED <<pc, argv, gui_available, env, fs, log_text, stdout, exit_code>>

\* the user edits the entry of the content file name
TypeContentFilename ==
    /\ pc = "gui"
    /\ \E t \in TypedContents : form' = [form EXCEPT !.content_filename = t]
    /\ last' = Idle
    /\ UNCHANGED <<pc, argv, gui_available, env, fs, log_text, stdout, exit_code>>

\* SPZConverterGUI.browse_input_file: a cancelled dialog returns ""
browse_input_file ==
    /\ pc = "gui"
    /\ \E filename \in PickedFiles :
         form' = IF filename # <<>> THEN [form EXCEPT !.input_file = filename]
                 ELSE form
    /\ last' = Idle
    /\ UNCHANGED <<pc, argv, gui_available, env, fs, log_text, stdout, exit_code>>

\* SPZConverterGUI.browse_output_dir
browse_output_dir ==
    /\ pc = "gui"
    /\ \E dirname \in PickedDirs :
         form' = IF dirname # <<>> THEN [form EXCEPT !.output_dir = dirname]
                 ELSE form
    /\ last' = Idle
    /\ UNCHANGED <<pc, argv, gui_available, env, fs, log_text, stdout, exit_code>>

\* mutant of MissingField: only the input file is required
MissingField_InputOnly(input_file, output_dir) ==
    IF input_file = <<>>
    THEN <<"showerror", "Error", "Please select an input SPZ file">>
    ELSE NoDialog

\* the dialog of the form's validation, none when both paths are filled in
MissingField(input_file, output_dir) ==
    IF input_file = <<>>
    THEN <<"showerror", "Error", "Please select an input SPZ file">>
    ELSE IF output_dir = <<>>
    THEN <<"showerror", "Error", "Please select an output directory">>
    ELSE NoDialog

\* the dialog that ends a conversion
OutcomeDialog(success) ==
    IF success
    THEN <<"showinfo", "Success", "Conversion completed successfully!">>
    ELSE <<"showerror", "Error", "Conversion failed. Check the log for details.">>

\* SPZConverterGUI.convert, the command of the Convert button.  An exception
\* that leaves the conversion leaves the handler too: Tk reports it and the
\* main loop goes on, with the log cleared and no dialog shown.
GUI_convert ==
    /\ pc = "gui"
    /\ \E ver \in VersionChoices(env) :
        \E run \in RunChoices(strip(form.input_file), strip(form.output_dir),
                              IF strip(form.content_filename) = <<>>
                              THEN DefaultContentName
                              ELSE strip(form.content_filename),
                              [env |-> env, fs |-> fs, ver |-> ver, main |-> NoRun]) :
         LET input_file == strip(form.input_file)
             output_dir == strip(form.output_dir)
             typed      == strip(form.content_filename)
             given      == [input_file |-> form.input_file,
                            output_dir |-> form.output_dir,
                            content |-> [given |-> TRUE,
                                         value |-> form.content_filename]]
             missing    == MissingField(input_file, output_dir)
             content_filename == IF typed = <<>> THEN DefaultContentName ELSE typed
             ret == convert(input_file, output_dir, content_filename,
                            [env |-> env, fs |-> fs, ver |-> ver, main |-> run])
         IN  IF missing # NoDialog
             THEN /\ last' = [Idle EXCEPT !.who = "gui", !.given = given,
                                          !.dialog = missing]
                  /\ UNCHANGED <<form, fs, log_text>>
             ELSE /\ form' = IF typed = <<>>
                             THEN [form EXCEPT !.content_filename = DefaultContentName]
                             ELSE form
                  /\ fs' = [fs EXCEPT !.dirs = ret.dirs]
                  /\ log_text' = IF ret.raised THEN <<>> ELSE ret.printed
                  /\ last' = [Called("gui", given,
                                     [input_file |-> input_file,
                                      output_dir |-> output_dir,
                                      content_filename |-> content_filename],
                                     fs.dirs, ver, run, ret)
                              EXCEPT !.dialog = IF ret.raised THEN NoDialog
                                                ELSE OutcomeDialog(ret.result)]
    /\ UNCHANGED <<pc, argv, gui_available, env, stdout, exit_code>>

\* the window is closed: mainloop and main() return
GuiClose ==
    /\ pc = "gui"
    /\ pc' = "exited"
    /\ exit_code' = 0
    /\ UNCHANGED <<argv, gui_available, env, fs, form, log_text, stdout, last>>

Next ==
    \/ MainGuiUnavailable
    \/ MainGuiStart
    \/ MainCliHelp
    \/ MainCliConvert
    \/ TypeInputFile
    \/ TypeOutputDir
    \/ TypeContentFilename
    \/ browse_input_file
    \/ browse_output_dir
    \/ GUI_convert
    \/ GuiClose

Spec == Init /\ [][Next]_vars

(***************************************************************************)
(* Properties.  They are stated on `last`, the record of the last handler: *)
(* what convert was given, what the commands it ran did, and what it       *)
(* returned, printed and launched.                                         *)
(***************************************************************************)
PrereqProbes == <<"which", "getenv", "java_exists", "run_version">>

CheckMessage ==
    <<"Maven not found in PATH. ",
      "JAVA_HOME environment variable is not set. ",
      "Java executable not found at ",
      "Maven test failed: ">>

FirstThreePass == env.mvn /\ env.java_home = "set" /\ env.java_exe

\* the earliest prerequisite check that fails in the last call, 0 when none
FailedCheck ==
    IF ~env.mvn THEN 1
    ELSE IF env.java_home # "set" THEN 2
    ELSE IF ~env.java_exe THEN 3
    ELSE IF ~(last.ver.kind = "exit" /\ last.ver.code = 0) THEN 4
    ELSE 0

\* the input file of the last call did not exist when it was called
InputMissing ==
    PathParts(last.args.input_file) \notin last.dirs_before \cup fs.files

\* C1: when a prerequisite is missing (Maven not on the path, JAVA_HOME
\* unset, no java executable under it, or the version query exiting
\* non-zero, timing out or raising), convert returns False, its one printed
\* line carries the message of the check that failed, and the exec:java
\* command is never launched.
C1_MissingPrerequisite ==
    (last.calls = 1 /\ FailedCheck # 0) =>
        /\ ~last.ret.raised
        /\ last.ret.result = FALSE
        /\ ~Ran(last.ret.events, "run_main")
        /\ last.ret.cmd = <<>>
        /\ Len(last.ret.printed) = 1
        /\ last.ret.printed[1][1] = "[x] Prerequisites check failed: "
        /\ last.ret.printed[1][2] = CheckMessage[FailedCheck]

C1_Witness ==
    /\ last.calls = 1
    /\ FailedCheck = 4
    /\ last.ver.kind = "timeout"
    /\ last.ret.result = FALSE
    /\ last.ret.printed[1][2] = "Maven test failed: "

\* C2 as stated: for an input file that does not exist, convert returns
\* failure and no external process is invoked during the call, neither the
\* version query nor the conversion command.
C2_NoProcessAtAll ==
    (last.calls = 1 /\ InputMissing) =>
        /\ ~last.ret.raised
        /\ last.ret.result = FALSE
        /\ ~Ran(last.ret.events, "run_version")
        /\ ~Ran(last.ret.events, "run_main")

\* C2 amended: for an input file that does not exist, convert returns
\* failure without launching the conversion command; the version query of
\* the prerequisite check is run exactly when the three checks before it
\* pass, since the prerequisites are checked before the input file.
C2_NoMainCommand ==
    (last.calls = 1 /\ InputMissing) =>
        /\ ~last.ret.raised
        /\ last.ret.result = FALSE
        /\ ~Ran(last.ret.events, "run_main")
        /\ last.ret.cmd = <<>>
        /\ Ran(last.ret.events, "run_version") <=> FirstThreePass

C2_Witness ==
    /\ last.calls = 1
    /\ InputMissing
    /\ FailedCheck = 0
    /\ Ran(last.ret.events, "run_version")
    /\ last.ret.result = FALSE
    /\ last.ret.printed[1][1] = "[x] Input file '"

\* C3: every error during a convert call is turned into a reported failure:
\* the call returns a boolean and no exception leaves it.
C3_NothingPropagates ==
    last.calls = 1 => ~last.ret.raised

\* C10: check_prerequisites probes in the fixed order search path,
\* JAVA_HOME, java executable, version query; it stops at the first check
\* that fails and reports that check; the version query is run only when
\* the first three checks pass, and at most once.
C10_ShortCircuit ==
    last.calls = 1 =>
        LET ev == last.ret.events
            k  == IF FailedCheck = 0 THEN 4 ELSE FailedCheck
        IN  /\ Len(ev) >= k
            /\ SubSeq(ev, 1, k) = SubSeq(PrereqProbes, 1, k)
            /\ FailedCheck # 0 =>
                 /\ Len(ev) = k
                 /\ last.ret.printed[1][2] = CheckMessage[FailedCheck]
            /\ Cardinality({i \in 1..Len(ev) : ev[i] = "run_version"})
                 = IF FirstThreePass THEN 1 ELSE 0

C10_Witness ==
    /\ last.calls = 1
    /\ FailedCheck = 2
    /\ ~env.java_exe
    /\ last.ret.events = <<"which", "getenv">>

\* the content file name the user gave to the last handler is omitted or empty
ContentNotGiven ==
    \/ ~last.given.content.given
    \/ last.given.content.value = <<>>
    \/ last.who = "gui" /\ strip(last.given.content.value) = <<>>

\* C4: whenever the content file name is omitted or empty (no
\* --content-name, an empty --content-name, a blank form field), content.glb
\* is the name in the argument string of the conversion command and the name
\* in the reported output paths.
C4_DefaultContentName ==
    (last.calls = 1 /\ ContentNotGiven /\ Ran(last.ret.events, "run_main")) =>
        LET arg == last.ret.cmd[4]
            n   == Len(last.ret.printed)
        IN  /\ arg[Len(arg)] = "content.glb"
            /\ (last.ret.result =>
                  last.ret.printed[n][Len(last.ret.printed[n])] = "content.glb")

\* the main command of the last call ran and exited with status 0 in time
MainSucceeded ==
    /\ Ran(last.ret.events, "run_main")
    /\ last.main.kind = "exit"
    /\ last.main.code = 0

FailureReport(run) ==
    IF run.kind = "exit" THEN "[x] Conversion failed!"
    ELSE IF run.kind = "timeout" THEN "[x] Conversion timed out after 5 minutes"
    ELSE IF run.kind = "notfound" THEN "[x] Command not found: "
    ELSE "[x] Unexpected error: "

\* C7: the conversion command is run with a timeout of 300; a timeout, a
\* non-zero exit, a launch failure and any other exception each make
\* convert return False with the report of that cause, which differs from
\* the reports of the other three.
C7_DistinctFailureReports ==
    (last.calls = 1 /\ Ran(last.ret.events, "run_main") /\ ~MainSucceeded) =>
        /\ ~last.ret.raised
        /\ last.ret.result = FALSE
        /\ last.ret.timeout = 300
        /\ Len(last.ret.printed) >= 3
        /\ last.ret.printed[3][1] = FailureReport(last.main)
        /\ \A kind \in {"exit", "timeout", "notfound", "error"} :
             kind # last.main.kind =>
               last.ret.printed[3][1] # FailureReport([kind |-> kind])

C7_Witness ==
    /\ last.calls = 1
    /\ last.main.kind = "timeout"
    /\ last.ret.result = FALSE
    /\ last.ret.printed[3] = <<"[x] Conversion timed out after 5 minutes">>

\* both path fields of the form held something but blanks at the last press
FormFilled ==
    /\ strip(last.given.input_file) # <<>>
    /\ strip(last.given.output_dir) # <<>>

OutPath == PathParts(last.args.output_dir)

\* C9: the output directory, with its intermediate directories, exists when
\* the conversion command is launched; a call whose output directory
\* already exists does not fail on that account; and the directory is
\* created only after the prerequisite check and the input validation have
\* passed.
C9_OutputDirectory ==
    last.calls = 1 =>
        /\ Ran(last.ret.events, "run_main") =>
             /\ Prefixes(OutPath) \subseteq last.ret.dirs
             /\ fs.dirs = last.ret.dirs
             /\ last.ret.events = PrereqProbes \o <<"input_exists", "mkdir", "run_main">>
        /\ (FailedCheck = 0 /\ ~InputMissing /\ OutPath \in last.dirs_before) =>
             /\ ~last.ret.raised
             /\ Ran(last.ret.events, "run_main")
        /\ (FailedCheck # 0 \/ InputMissing) =>
             /\ ~Ran(last.ret.events, "mkdir")
             /\ last.ret.dirs = last.dirs_before

C9_Witness ==
    /\ last.calls = 1
    /\ OutPath # <<>>
    /\ OutPath \in last.dirs_before
    /\ Ran(last.ret.events, "run_main")

=============================================================================
